---- MODULE Spec2Model ----
(***************************************************************************)
(* BLS signatures over a pairing (rust-impl/src/signature.rs).             *)
(*                                                                         *)
(* The arithmetic backend (Fr, G1, G2, Fq12, Miller loop, final            *)
(* exponentiation, hash-to-curve, HKDF, point serialization) is an         *)
(* external crate.  It is modelled by a small cyclic instance: the scalar  *)
(* field is Z_Order, a point of G1 or G2 is its discrete logarithm with    *)
(* respect to the group's generator, an element of Fq12 (the order-r       *)
(* subgroup) is its logarithm with respect to e(g1, g2), and the pairing   *)
(* is multiplication of logarithms.  Everything in signature.rs itself is  *)
(* translated operation by operation.                                      *)
(***************************************************************************)
EXTENDS Integers, Sequences, FiniteSets

VARIABLES op, cfg, args, ret

vars == <<op, cfg, args, ret>>

(***************************************************************************)
(* Bounds of the model                                                     *)
(***************************************************************************)
\* order of the scalar field and of the three groups
Order == 5
\* longest slice of public keys, messages or signatures passed to a call
MaxN == 2

(***************************************************************************)
(* Sizes set by the program                                                *)
(***************************************************************************)
\* compressed encoding of a G1 point, and the PoP buffer of the G2 impl
G1Size == 48
\* compressed encoding of a G2 point, and the PoP buffer of the G1 impl
G2Size == 96

(***************************************************************************)
(* Input domains                                                           *)
(***************************************************************************)
Scalars == 0..(Order - 1)
Groups == {"G1", "G2"}
\* ciphersuite bytes
CSs == {1, 2}
\* messages: the empty message and a non-empty one
Msgs == {<<>>, <<7, 9>>}
\* input key material
IKMs == {<<b>> : b \in 1..Order}

Min(a, b) == IF a <= b THEN a ELSE b

SeqsUpTo(S, n) == UNION {[1..k -> S] : k \in 0..n}

(***************************************************************************)
(* Backend: groups                                                         *)
(***************************************************************************)
Pt(g, a) == [g |-> g, v |-> a % Order]
Points(g) == {Pt(g, a) : a \in Scalars}
\* CurveProjective::zero
Zero(g) == Pt(g, 0)
\* CurveProjective::one, the generator
One(g) == Pt(g, 1)
\* add_assign
Add(p, q) == Pt(p.g, p.v + q.v)
\* negate
Neg(p) == Pt(p.g, Order - p.v)
\* mul_assign by a scalar
Mul(p, s) == Pt(p.g, p.v * s)

(***************************************************************************)
(* Backend: byte-string hashing                                            *)
(***************************************************************************)
\* The digest of a byte string: its length and its non-zero bytes, each with
\* its position, absorbed in order of position.
RECURSIVE Absorb(_, _, _)
Absorb(h, s, idx) ==
    IF idx = {} THEN h
    ELSE LET i == CHOOSE k \in idx : \A j \in idx : k <= j
         IN  Absorb((h * 33 + 7 * i + s[i]) % 1009, s, idx \ {i})

Digest(seed, s) ==
    Absorb((seed + 5 * Len(s)) % 1009, s, {i \in 1..Len(s) : s[i] # 0})

\* HKDF-SHA256 expand to 48 bytes, then Fr::from_okm
HkdfToFr(ikm) == (Digest(2, ikm) + 1) % Order

GroupSeed(g) == IF g = "G1" THEN 15 ELSE 29

\* HashToCurve::hash_to_curve: the ciphersuite byte is appended to the input
hash_to_curve(g, msg, ciphersuite) ==
    Pt(g, Digest(GroupSeed(g), Append(msg, ciphersuite)))

(***************************************************************************)
(* Backend: compressed serialization                                       *)
(***************************************************************************)
EncSize(g) == IF g = "G1" THEN G1Size ELSE G2Size

\* flags byte: compressed, infinity, sign of y
FlagByte(p) ==
    128 + (IF p.v = 0 THEN 64 ELSE 0)
        + (IF p.v # 0 /\ p.v > Order - p.v THEN 32 ELSE 0)

\* a point and its negation share the x coordinate
XCoord(p) == Min(p.v, (Order - p.v) % Order)

\* SerDes::serialize(_, compressed = true): the bytes written
Serialize(p) ==
    [i \in 1..EncSize(p.g) |->
        IF i = 1 THEN FlagByte(p)
        ELSE IF i = EncSize(p.g) THEN XCoord(p)
        ELSE 0]

(***************************************************************************)
(* Backend: pairing                                                        *)
(***************************************************************************)
RECURSIVE MillerFrom(_, _, _)
MillerFrom(acc, pairs, i) ==
    IF i > Len(pairs) THEN acc
    ELSE MillerFrom((acc + pairs[i][1].v * pairs[i][2].v) % Order, pairs, i + 1)

\* Engine::miller_loop over (G1, G2) pairs
miller_loop(pairs) == MillerFrom(0, pairs, 1)

\* Engine::final_exponentiation: an Option, None only for a zero input, which
\* a Miller loop never yields
final_exponentiation(f) == [some |-> TRUE, val |-> f]

\* Fq12::one
Fq12One == 0

\* match final_exponentiation(..) { None => false, Some(p) => p == Fq12::one() }
PairingCheck(pairs) ==
    LET r == final_exponentiation(miller_loop(pairs))
    IN  IF ~r.some THEN FALSE ELSE r.val = Fq12One

\* iter().zip(): stops at the shorter side
Zip(p, q) == [i \in 1..Min(Len(p), Len(q)) |-> <<p[i], q[i]>>]

(***************************************************************************)
(* signature.rs                                                            *)
(***************************************************************************)
xprime_from_sk(ikm) == HkdfToFr(ikm)

RECURSIVE AggFrom(_, _, _)
AggFrom(acc, ins, i) ==
    IF i > Len(ins) THEN acc ELSE AggFrom(Add(acc, ins[i]), ins, i + 1)

\* faulty variant: the loop stops one element early
agg_help_SkipLast(g, ins) == AggFrom(Zero(g), SubSeq(ins, 1, Len(ins) - 1), 1)

\* faulty variant: the accumulator starts at the generator
agg_help_FromOne(g, ins) == AggFrom(One(g), ins, 1)

\* _agg_help: T::zero() plus every element of the slice
agg_help(g, ins) == AggFrom(Zero(g), ins, 1)

\* BLSSigCore::PKType of the implementation whose signatures are in g
PKType(g) == IF g = "G1" THEN "G2" ELSE "G1"

\* ---- impl BLSSigCore for G1 (signatures in G1, public keys in G2)
G1_keygen(ikm) ==
    LET x_prime == xprime_from_sk(ikm)
    IN  [sk |-> x_prime, pk |-> Mul(One("G2"), x_prime)]

G1_core_sign(x_prime, msg, ciphersuite) ==
    Mul(hash_to_curve("G1", msg, ciphersuite), x_prime)

\* faulty variant: the generator is not negated
G1_core_verify_pairs_GenNotNegated(pk, sig, msg, ciphersuite) ==
    LET p == hash_to_curve("G1", msg, ciphersuite)
        g2gen == One("G2")
    IN  << <<p, pk>>, <<sig, g2gen>> >>

G1_core_verify_pairs(pk, sig, msg, ciphersuite) ==
    LET p == hash_to_curve("G1", msg, ciphersuite)
        g2gen == Neg(One("G2"))
    IN  << <<p, pk>>, <<sig, g2gen>> >>

G1_core_verify(pk, sig, msg, ciphersuite) ==
    PairingCheck(G1_core_verify_pairs(pk, sig, msg, ciphersuite))

G1_core_aggregate_verify_pairs(pks, msgs, sig, ciphersuite) ==
    LET pvec == Append([i \in 1..Len(msgs) |->
                           hash_to_curve("G1", msgs[i], ciphersuite)], sig)
        qvec == Append(pks, Neg(One("G2")))
    IN  Zip(pvec, qvec)

G1_core_aggregate_verify(pks, msgs, sig, ciphersuite) ==
    PairingCheck(G1_core_aggregate_verify_pairs(pks, msgs, sig, ciphersuite))

\* ---- impl BLSSigCore for G2 (signatures in G2, public keys in G1)
G2_keygen(ikm) ==
    LET x_prime == xprime_from_sk(ikm)
    IN  [sk |-> x_prime, pk |-> Mul(One("G1"), x_prime)]

\* faulty variant: the ciphersuite byte is not passed on to the hash
G2_core_sign_FixedCiphersuite(x_prime, msg, ciphersuite) ==
    Mul(hash_to_curve("G2", msg, 0), x_prime)

G2_core_sign(x_prime, msg, ciphersuite) ==
    Mul(hash_to_curve("G2", msg, ciphersuite), x_prime)

G2_core_verify_pairs(pk, sig, msg, ciphersuite) ==
    LET p == hash_to_curve("G2", msg, ciphersuite)
        g1gen == Neg(One("G1"))
    IN  << <<pk, p>>, <<g1gen, sig>> >>

G2_core_verify(pk, sig, msg, ciphersuite) ==
    PairingCheck(G2_core_verify_pairs(pk, sig, msg, ciphersuite))

\* faulty variant: the generator is not negated
G2_core_aggregate_verify_pairs_GenNotNegated(pks, msgs, sig, ciphersuite) ==
    LET pvec == Append(pks, One("G1"))
        qvec == Append([i \in 1..Len(msgs) |->
                           hash_to_curve("G2", msgs[i], ciphersuite)], sig)
    IN  Zip(pvec, qvec)

G2_core_aggregate_verify_pairs(pks, msgs, sig, ciphersuite) ==
    LET pvec == Append(pks, Neg(One("G1")))
        qvec == Append([i \in 1..Len(msgs) |->
                           hash_to_curve("G2", msgs[i], ciphersuite)], sig)
    IN  Zip(pvec, qvec)

G2_core_aggregate_verify(pks, msgs, sig, ciphersuite) ==
    PairingCheck(G2_core_aggregate_verify_pairs(pks, msgs, sig, ciphersuite))

\* ---- trait dispatch: g is Self, the signature group
keygen(g, ikm) == IF g = "G1" THEN G1_keygen(ikm) ELSE G2_keygen(ikm)

core_sign(g, x_prime, msg, ciphersuite) ==
    IF g = "G1" THEN G1_core_sign(x_prime, msg, ciphersuite)
    ELSE G2_core_sign(x_prime, msg, ciphersuite)

core_verify(g, pk, sig, msg, ciphersuite) ==
    IF g = "G1" THEN G1_core_verify(pk, sig, msg, ciphersuite)
    ELSE G2_core_verify(pk, sig, msg, ciphersuite)

core_aggregate_verify(g, pks, msgs, sig, ciphersuite) ==
    IF g = "G1" THEN G1_core_aggregate_verify(pks, msgs, sig, ciphersuite)
    ELSE G2_core_aggregate_verify(pks, msgs, sig, ciphersuite)

\* BLSSigCore::aggregate
aggregate(g, sigs) == agg_help(g, sigs)

\* ---- trait BLSSignatureBasic
\* faulty variant: the uniqueness check is missing
Basic_aggregate_verify_NoCheck(g, pks, msgs, sig, ciphersuite) ==
    core_aggregate_verify(g, pks, msgs, sig, ciphersuite)

Basic_aggregate_verify(g, pks, msgs, sig, ciphersuite) ==
    LET msg_set == {msgs[i] : i \in 1..Len(msgs)}
    IN  IF Cardinality(msg_set) # Len(msgs) THEN FALSE
        ELSE core_aggregate_verify(g, pks, msgs, sig, ciphersuite)

\* ---- trait BLSSignatureAug
\* pk_bytes: serialize into a growable vector; size_hint is only a capacity
pk_bytes(pk, size_hint) == Serialize(pk)

Aug_sign(g, x_prime, msg, ciphersuite) ==
    LET pk == Mul(One(PKType(g)), x_prime)
        pk_msg_vec == pk_bytes(pk, Len(msg)) \o msg
    IN  core_sign(g, x_prime, pk_msg_vec, ciphersuite)

\* faulty variant: the public key is appended to the message, not prepended
Aug_verify_MsgFirst(g, pk, sig, msg, ciphersuite) ==
    LET pk_msg_vec == msg \o pk_bytes(pk, Len(msg))
    IN  core_verify(g, pk, sig, pk_msg_vec, ciphersuite)

Aug_verify(g, pk, sig, msg, ciphersuite) ==
    LET pk_msg_vec == pk_bytes(pk, Len(msg)) \o msg
    IN  core_verify(g, pk, sig, pk_msg_vec, ciphersuite)

\* faulty variant: every message is framed with the first public key
Aug_pks_msgs_vec_FirstKey(pks, msgs) ==
    [i \in 1..Min(Len(msgs), Len(pks)) |->
        pk_bytes(pks[1], Len(msgs[i])) \o msgs[i]]

\* the framed messages: one per element of msgs.iter().zip(pks)
Aug_pks_msgs_vec(pks, msgs) ==
    [i \in 1..Min(Len(msgs), Len(pks)) |->
        pk_bytes(pks[i], Len(msgs[i])) \o msgs[i]]

Aug_aggregate_verify(g, pks, msgs, sig, ciphersuite) ==
    core_aggregate_verify(g, pks, Aug_pks_msgs_vec(pks, msgs), sig, ciphersuite)

\* ---- trait BLSSignaturePop
Pop_multisig_verify(g, pks, sig, msg, ciphersuite) ==
    LET apk == agg_help(PKType(g), pks)
    IN  core_verify(g, apk, sig, msg, ciphersuite)

\* outcome of a call that may abort on a failed assert!
Panic == [ok |-> FALSE, val |-> <<>>]
Returned(v) == [ok |-> TRUE, val |-> v]

\* serialize through a Cursor over a zeroed buffer of buf_len bytes; the
\* assert! on the result fails when the encoding does not fit
SerializeInto(buf_len, pk) ==
    LET enc == Serialize(pk)
    IN  IF Len(enc) > buf_len THEN [ok |-> FALSE, buf |-> <<>>]
        ELSE [ok |-> TRUE,
              buf |-> [i \in 1..buf_len |-> IF i <= Len(enc) THEN enc[i] ELSE 0]]

\* impl BLSSignaturePop for G1
G1_pop_prove(ikm, ciphersuite) ==
    LET kp == G1_keygen(ikm)
        pk_bytes_buf == SerializeInto(G2Size, kp.pk)
    IN  IF ~pk_bytes_buf.ok THEN Panic
        ELSE Returned(G1_core_sign(kp.sk, pk_bytes_buf.buf, ciphersuite))

G1_pop_prove_with_both_keys(sk, pk, ciphersuite) ==
    LET pk_bytes_buf == SerializeInto(G2Size, pk)
    IN  IF ~pk_bytes_buf.ok THEN Panic
        ELSE Returned(G1_core_sign(sk, pk_bytes_buf.buf, ciphersuite))

G1_pop_verify(pk, sig, ciphersuite) ==
    LET pk_bytes_buf == SerializeInto(G2Size, pk)
    IN  IF ~pk_bytes_buf.ok THEN Panic
        ELSE Returned(G1_core_verify(pk, sig, pk_bytes_buf.buf, ciphersuite))

\* impl BLSSignaturePop for G2
G2_pop_prove(ikm, ciphersuite) ==
    LET kp == G2_keygen(ikm)
        pk_bytes_buf == SerializeInto(G1Size, kp.pk)
    IN  IF ~pk_bytes_buf.ok THEN Panic
        ELSE Returned(G2_core_sign(kp.sk, pk_bytes_buf.buf, ciphersuite))

G2_pop_prove_with_both_keys(sk, pk, ciphersuite) ==
    LET pk_bytes_buf == SerializeInto(G1Size, pk)
    IN  IF ~pk_bytes_buf.ok THEN Panic
        ELSE Returned(G2_core_sign(sk, pk_bytes_buf.buf, ciphersuite))

\* faulty variant: the 96-byte buffer of the G1 implementation
G2_pop_verify_Buf96(pk, sig, ciphersuite) ==
    LET pk_bytes_buf == SerializeInto(G2Size, pk)
    IN  IF ~pk_bytes_buf.ok THEN Panic
        ELSE Returned(G2_core_verify(pk, sig, pk_bytes_buf.buf, ciphersuite))

G2_pop_verify(pk, sig, ciphersuite) ==
    LET pk_bytes_buf == SerializeInto(G1Size, pk)
    IN  IF ~pk_bytes_buf.ok THEN Panic
        ELSE Returned(G2_core_verify(pk, sig, pk_bytes_buf.buf, ciphersuite))

pop_prove(g, ikm, ciphersuite) ==
    IF g = "G1" THEN G1_pop_prove(ikm, ciphersuite)
    ELSE G2_pop_prove(ikm, ciphersuite)

pop_prove_with_both_keys(g, sk, pk, ciphersuite) ==
    IF g = "G1" THEN G1_pop_prove_with_both_keys(sk, pk, ciphersuite)
    ELSE G2_pop_prove_with_both_keys(sk, pk, ciphersuite)

pop_verify(g, pk, sig, ciphersuite) ==
    IF g = "G1" THEN G1_pop_verify(pk, sig, ciphersuite)
    ELSE G2_pop_verify(pk, sig, ciphersuite)

(***************************************************************************)
(* State machine.  The library holds no state: a behaviour is one call,    *)
(* made by a caller that has not called yet, with arguments of the         *)
(* caller's choice.  cfg is the implementation called (Self, the group of  *)
(* the signatures); the state after the call records the arguments and     *)
(* the value returned.                                                     *)
(***************************************************************************)
Init ==
    /\ op = "init"
    /\ cfg \in Groups
    /\ args = <<>>
    /\ ret = <<>>

Keygen ==
    /\ op = "init"
    /\ \E ikm \in IKMs :
        /\ op' = "keygen"
        /\ cfg' = cfg
        /\ args' = [ikm |-> ikm]
        /\ ret' = keygen(cfg, ikm)

CoreSign ==
    /\ op = "init"
    /\ \E sk \in Scalars, msg \in Msgs, cs \in CSs :
        /\ op' = "core_sign"
        /\ cfg' = cfg
        /\ args' = [sk |-> sk, msg |-> msg, cs |-> cs]
        /\ ret' = core_sign(cfg, sk, msg, cs)

CoreVerify ==
    /\ op = "init"
    /\ \E msg \in Msgs, cs \in CSs :
       \E pk \in Points(PKType(cfg)), sig \in Points(cfg) :
        /\ op' = "core_verify"
        /\ cfg' = cfg
        /\ args' = [pk |-> pk, sig |-> sig, msg |-> msg, cs |-> cs]
        /\ ret' = core_verify(cfg, pk, sig, msg, cs)

Aggregate ==
    /\ op = "init"
    /\ \E sigs \in SeqsUpTo(Points(cfg), MaxN) :
        /\ op' = "aggregate"
        /\ cfg' = cfg
        /\ args' = [sigs |-> sigs]
        /\ ret' = aggregate(cfg, sigs)

CoreAggregateVerify ==
    /\ op = "init"
    /\ \E msgs \in SeqsUpTo(Msgs, MaxN), cs \in CSs :
       \E pks \in SeqsUpTo(Points(PKType(cfg)), MaxN), sig \in Points(cfg) :
        /\ op' = "core_aggregate_verify"
        /\ cfg' = cfg
        /\ args' = [pks |-> pks, msgs |-> msgs, sig |-> sig, cs |-> cs]
        /\ ret' = core_aggregate_verify(cfg, pks, msgs, sig, cs)

BasicAggregateVerify ==
    /\ op = "init"
    /\ \E msgs \in SeqsUpTo(Msgs, MaxN), cs \in CSs :
       \E pks \in SeqsUpTo(Points(PKType(cfg)), MaxN), sig \in Points(cfg) :
        /\ op' = "basic_aggregate_verify"
        /\ cfg' = cfg
        /\ args' = [pks |-> pks, msgs |-> msgs, sig |-> sig, cs |-> cs]
        /\ ret' = Basic_aggregate_verify(cfg, pks, msgs, sig, cs)

AugSign ==
    /\ op = "init"
    /\ \E sk \in Scalars, msg \in Msgs, cs \in CSs :
        /\ op' = "aug_sign"
        /\ cfg' = cfg
        /\ args' = [sk |-> sk, msg |-> msg, cs |-> cs]
        /\ ret' = Aug_sign(cfg, sk, msg, cs)

AugVerify ==
    /\ op = "init"
    /\ \E msg \in Msgs, cs \in CSs :
       \E pk \in Points(PKType(cfg)), sig \in Points(cfg) :
        /\ op' = "aug_verify"
        /\ cfg' = cfg
        /\ args' = [pk |-> pk, sig |-> sig, msg |-> msg, cs |-> cs]
        /\ ret' = Aug_verify(cfg, pk, sig, msg, cs)

AugAggregateVerify ==
    /\ op = "init"
    /\ \E msgs \in SeqsUpTo(Msgs, MaxN), cs \in CSs :
       \E pks \in SeqsUpTo(Points(PKType(cfg)), MaxN), sig \in Points(cfg) :
        /\ op' = "aug_aggregate_verify"
        /\ cfg' = cfg
        /\ args' = [pks |-> pks, msgs |-> msgs, sig |-> sig, cs |-> cs]
        /\ ret' = Aug_aggregate_verify(cfg, pks, msgs, sig, cs)

MultisigVerify ==
    /\ op = "init"
    /\ \E msg \in Msgs, cs \in CSs :
       \E pks \in SeqsUpTo(Points(PKType(cfg)), MaxN), sig \in Points(cfg) :
        /\ op' = "multisig_verify"
        /\ cfg' = cfg
        /\ args' = [pks |-> pks, sig |-> sig, msg |-> msg, cs |-> cs]
        /\ ret' = Pop_multisig_verify(cfg, pks, sig, msg, cs)

PopProve ==
    /\ op = "init"
    /\ \E ikm \in IKMs, cs \in CSs :
        /\ op' = "pop_prove"
        /\ cfg' = cfg
        /\ args' = [ikm |-> ikm, cs |-> cs]
        /\ ret' = pop_prove(cfg, ikm, cs)

PopProveWithBothKeys ==
    /\ op = "init"
    /\ \E sk \in Scalars, cs \in CSs :
       \E pk \in Points(PKType(cfg)) :
        /\ op' = "pop_prove_with_both_keys"
        /\ cfg' = cfg
        /\ args' = [sk |-> sk, pk |-> pk, cs |-> cs]
        /\ ret' = pop_prove_with_both_keys(cfg, sk, pk, cs)

PopVerify ==
    /\ op = "init"
    /\ \E cs \in CSs :
       \E pk \in Points(PKType(cfg)), sig \in Points(cfg) :
        /\ op' = "pop_verify"
        /\ cfg' = cfg
        /\ args' = [pk |-> pk, sig |-> sig, cs |-> cs]
        /\ ret' = pop_verify(cfg, pk, sig, cs)

Next ==
    \/ Keygen
    \/ CoreSign
    \/ CoreVerify
    \/ Aggregate
    \/ CoreAggregateVerify
    \/ BasicAggregateVerify
    \/ AugSign
    \/ AugVerify
    \/ AugAggregateVerify
    \/ MultisigVerify
    \/ PopProve
    \/ PopProveWithBothKeys
    \/ PopVerify

Spec == Init /\ [][Next]_vars

(***************************************************************************)
(* Definitions used to state the properties                                *)
(***************************************************************************)
\* the generator of the public-key group raised to sk
PkOf(g, sk) == Mul(One(PKType(g)), sk)

\* the key pairs keygen can produce
KeyPairs(g) == {keygen(g, ikm) : ikm \in IKMs}

IsKeygenPk(g, pk) == \E kp \in KeyPairs(g) : kp.pk = pk

\* the secret exponent keygen pairs with pk
SkFor(g, pk) == (CHOOSE kp \in KeyPairs(g) : kp.pk = pk).sk

\* the pairing e : G1 x G2 -> Fq12, as the logarithm of its value
E(p, q) == IF p.g = "G1" /\ q.g = "G2" THEN (p.v * q.v) % Order ELSE -1

\* the sum of a list of points, from the last to the first
RECURSIVE PointSum(_, _)
PointSum(g, ps) ==
    IF ps = <<>> THEN [g |-> g, v |-> 0]
    ELSE LET rest == PointSum(g, Tail(ps))
         IN  [g |-> g, v |-> (Head(ps).v + rest.v) % Order]

HasDuplicate(msgs) ==
    \E i, j \in 1..Len(msgs) : i # j /\ msgs[i] = msgs[j]

\* Encode(pks[i]) || msgs[i], for lists of the same length
Framed(pks, msgs) == [i \in 1..Len(pks) |-> Serialize(pks[i]) \o msgs[i]]

\* the signatures of the owners of pks, each on its message
SigsOf(g, pks, msgs, cs) ==
    [i \in 1..Len(pks) |-> core_sign(g, SkFor(g, pks[i]), msgs[i], cs)]

AllKeygenPks(g, pks) == \A i \in 1..Len(pks) : IsKeygenPk(g, pks[i])

(***************************************************************************)
(* Properties                                                              *)
(***************************************************************************)
\* C1: sign/verify round trip.  core_verify accepts core_sign(sk, msg, cs)
\* under the public key of sk, for the key pairs of keygen and for every
\* scalar sk (0 included), in both implementations.
C1_SignVerifyRoundTrip ==
    op = "core_verify" =>
        /\ \A ikm \in IKMs :
             LET kp == keygen(cfg, ikm)
             IN  (args.pk = kp.pk
                    /\ args.sig = core_sign(cfg, kp.sk, args.msg, args.cs))
                 => ret = TRUE
        /\ \A sk \in Scalars :
             (args.pk = PkOf(cfg, sk)
                /\ args.sig = core_sign(cfg, sk, args.msg, args.cs))
             => ret = TRUE

C1_Witness ==
    /\ op = "core_verify"
    /\ cfg = "G2"
    /\ \E ikm \in IKMs :
         LET kp == keygen(cfg, ikm)
         IN  /\ kp.sk # 0
             /\ args.pk = kp.pk
             /\ args.sig = core_sign(cfg, kp.sk, args.msg, args.cs)
             /\ args.sig.v # 0
    /\ ret = TRUE

\* C2: aggregate correctness.  For key pairs of keygen and messages of the
\* same number (repeats allowed), core_aggregate_verify accepts the
\* aggregate of the signers' signatures.
C2_AggregateCorrectness ==
    (/\ op = "core_aggregate_verify"
     /\ Len(args.pks) = Len(args.msgs)
     /\ AllKeygenPks(cfg, args.pks)
     /\ args.sig = aggregate(cfg, SigsOf(cfg, args.pks, args.msgs, args.cs)))
    => ret = TRUE

C2_Witness ==
    /\ op = "core_aggregate_verify"
    /\ Len(args.pks) = 2
    /\ Len(args.msgs) = 2
    /\ args.msgs[1] = args.msgs[2]
    /\ args.pks[1] # args.pks[2]
    /\ args.pks[1].v # 0
    /\ args.pks[2].v # 0
    /\ AllKeygenPks(cfg, args.pks)
    /\ args.sig = aggregate(cfg, SigsOf(cfg, args.pks, args.msgs, args.cs))
    /\ args.sig.v # 0
    /\ ret = TRUE

\* C3: basic duplicate rejection.  With two equal messages at different
\* positions basic aggregate_verify returns false; with pairwise distinct
\* messages it returns what core_aggregate_verify returns.
C3_BasicDuplicateRejection ==
    op = "basic_aggregate_verify" =>
        /\ HasDuplicate(args.msgs) => ret = FALSE
        /\ ~HasDuplicate(args.msgs) =>
             ret = core_aggregate_verify(cfg, args.pks, args.msgs,
                                         args.sig, args.cs)

C3_Witness ==
    /\ op = "basic_aggregate_verify"
    /\ HasDuplicate(args.msgs)
    /\ Len(args.pks) = Len(args.msgs)
    /\ args.sig.v # 0
    /\ core_aggregate_verify(cfg, args.pks, args.msgs, args.sig, args.cs)
    /\ ret = FALSE

\* C4: augmentation framing.  aug verify is core_verify on Encode(pk) || msg,
\* aug sign is core_sign on Encode(G^sk) || msg, and aug verify accepts
\* aug sign under a key pair of keygen.
C4_AugmentationFraming ==
    /\ op = "aug_verify" =>
         /\ ret = core_verify(cfg, args.pk, args.sig,
                              Serialize(args.pk) \o args.msg, args.cs)
         /\ \A ikm \in IKMs :
              LET kp == keygen(cfg, ikm)
              IN  (args.pk = kp.pk
                     /\ args.sig = Aug_sign(cfg, kp.sk, args.msg, args.cs))
                  => ret = TRUE
    /\ op = "aug_sign" =>
         ret = core_sign(cfg, args.sk,
                         Serialize(PkOf(cfg, args.sk)) \o args.msg, args.cs)

C4_Witness ==
    /\ op = "aug_verify"
    /\ args.msg # <<>>
    /\ \E ikm \in IKMs :
         LET kp == keygen(cfg, ikm)
         IN  /\ kp.sk # 0
             /\ args.pk = kp.pk
             /\ args.sig = Aug_sign(cfg, kp.sk, args.msg, args.cs)
             /\ args.sig.v # 0
    /\ ret = TRUE

\* C5: PoP round trip.  pop_verify accepts pop_prove(ikm, cs) under the
\* public key of keygen(ikm); the proof signs the encoded public key, 96
\* bytes when the public key is in G2 and 48 bytes when it is in G1.
C5_PopRoundTrip ==
    /\ op = "pop_verify" =>
         \A ikm \in IKMs :
             (args.pk = keygen(cfg, ikm).pk
                /\ pop_prove(cfg, ikm, args.cs) = Returned(args.sig))
             => ret = Returned(TRUE)
    /\ op = "pop_prove" =>
         LET kp == keygen(cfg, args.ikm)
             enc == Serialize(kp.pk)
         IN  /\ Len(enc) = (IF kp.pk.g = "G2" THEN 96 ELSE 48)
             /\ ret = Returned(core_sign(cfg, kp.sk, enc, args.cs))

C5_Witness ==
    /\ op = "pop_verify"
    /\ cfg = "G2"
    /\ \E ikm \in IKMs :
         /\ keygen(cfg, ikm).sk # 0
         /\ args.pk = keygen(cfg, ikm).pk
         /\ pop_prove(cfg, ikm, args.cs) = Returned(args.sig)
         /\ args.sig.v # 0
    /\ ret = Returned(TRUE)

\* C6: multisig equals core on the key sum.  multisig_verify returns what
\* core_verify returns for the sum of pks (the empty list included), and
\* accepts the aggregate of the signers' signatures on one message.
C6_MultisigOnKeySum ==
    op = "multisig_verify" =>
        /\ ret = core_verify(cfg, PointSum(PKType(cfg), args.pks),
                             args.sig, args.msg, args.cs)
        /\ (/\ AllKeygenPks(cfg, args.pks)
            /\ args.sig =
                 aggregate(cfg, SigsOf(cfg, args.pks,
                                       [i \in 1..Len(args.pks) |-> args.msg],
                                       args.cs)))
           => ret = TRUE

C6_Witness ==
    /\ op = "multisig_verify"
    /\ Len(args.pks) = 2
    /\ args.pks[1] # args.pks[2]
    /\ args.pks[1].v # 0
    /\ args.pks[2].v # 0
    /\ PointSum(PKType(cfg), args.pks).v # 0
    /\ AllKeygenPks(cfg, args.pks)
    /\ args.sig =
         aggregate(cfg, SigsOf(cfg, args.pks,
                               [i \in 1..Len(args.pks) |-> args.msg], args.cs))
    /\ args.sig.v # 0
    /\ ret = TRUE

\* C7: augmented aggregate verification.  For pks and msgs of the same
\* length, aug aggregate_verify returns what core_aggregate_verify returns
\* on the messages Encode(pks[i]) || msgs[i], in the order of pks.
C7_AugAggregateVerify ==
    (op = "aug_aggregate_verify" /\ Len(args.pks) = Len(args.msgs)) =>
        ret = core_aggregate_verify(cfg, args.pks,
                                    Framed(args.pks, args.msgs),
                                    args.sig, args.cs)

C7_Witness ==
    /\ op = "aug_aggregate_verify"
    /\ Len(args.pks) = 2
    /\ Len(args.msgs) = 2
    /\ args.pks[1] # args.pks[2]
    /\ args.pks[1].v # 0
    /\ args.pks[2].v # 0
    /\ args.msgs[1] # args.msgs[2]
    /\ args.sig.v # 0
    /\ ret = TRUE
    /\ core_aggregate_verify(cfg, args.pks, Framed(args.pks, args.msgs),
                             args.sig, args.cs)

\* C8: empty aggregate.  aggregate of no signatures is the identity of the
\* signature group, and core_aggregate_verify of no keys and no messages
\* accepts a signature exactly when it is the identity.
C8_EmptyAggregate ==
    /\ (op = "aggregate" /\ args.sigs = <<>>) =>
         ret = [g |-> cfg, v |-> 0]
    /\ (op = "core_aggregate_verify" /\ args.pks = <<>> /\ args.msgs = <<>>) =>
         (ret = TRUE <=> args.sig = [g |-> cfg, v |-> 0])

C8_Witness ==
    /\ op = "core_aggregate_verify"
    /\ args.pks = <<>>
    /\ args.msgs = <<>>
    /\ args.sig = [g |-> cfg, v |-> 0]
    /\ args.sig = aggregate(cfg, <<>>)
    /\ ret = TRUE

\* C9: verification equation.  core_verify accepts exactly when
\* e(H(msg, cs), pk) = e(sig, G) with (G1, G2)-ordered arguments; the Miller
\* loop runs over (H, pk), (sig, -G) when the signature is in G1 and over
\* (pk, H), (-G, sig) when it is in G2; and under pk = G^x the only
\* signature accepted is H(msg, cs)^x.
C9_VerificationEquation ==
    op = "core_verify" =>
        LET H == hash_to_curve(cfg, args.msg, args.cs)
            G == [g |-> PKType(cfg), v |-> 1]
            minusG == [g |-> PKType(cfg), v |-> Order - 1]
        IN  /\ cfg = "G1" =>
                 /\ ret = (E(H, args.pk) = E(args.sig, G))
                 /\ G1_core_verify_pairs(args.pk, args.sig, args.msg, args.cs)
                      = << <<H, args.pk>>, <<args.sig, minusG>> >>
            /\ cfg = "G2" =>
                 /\ ret = (E(args.pk, H) = E(G, args.sig))
                 /\ G2_core_verify_pairs(args.pk, args.sig, args.msg, args.cs)
                      = << <<args.pk, H>>, <<minusG, args.sig>> >>
            /\ \A x \in Scalars :
                 (args.pk = PkOf(cfg, x) /\ ret = TRUE)
                 => args.sig = Mul(H, x)

C9_Witness ==
    /\ op = "core_verify"
    /\ cfg = "G2"
    /\ args.pk.v > 1
    /\ args.sig.v # 0
    /\ E(args.pk, hash_to_curve(cfg, args.msg, args.cs))
         = E([g |-> "G1", v |-> 1], args.sig)
    /\ ret = TRUE

\* C10: length-mismatch rejection.  core_aggregate_verify returns false
\* whenever pks and msgs differ in length, and a call that accepts has the
\* pair of sig and the negated generator among its Miller-loop pairs.
C10_LengthMismatchRejected ==
    op = "core_aggregate_verify" =>
        LET minusG == [g |-> PKType(cfg), v |-> Order - 1]
            pairs == IF cfg = "G1"
                     THEN G1_core_aggregate_verify_pairs(
                              args.pks, args.msgs, args.sig, args.cs)
                     ELSE G2_core_aggregate_verify_pairs(
                              args.pks, args.msgs, args.sig, args.cs)
            sigPair == IF cfg = "G1" THEN <<args.sig, minusG>>
                       ELSE <<minusG, args.sig>>
        IN  /\ Len(args.pks) # Len(args.msgs) => ret = FALSE
            /\ ret = TRUE => \E i \in 1..Len(pairs) : pairs[i] = sigPair

====
